---- MODULE Spec2Model ----
(***************************************************************************)
(* Startup of the relay API command (cmd/api.go): flag registration in     *)
(* init(), flag parsing by cobra, and the body of apiCmd.Run, one action   *)
(* per call that Run makes to a collaborator.                              *)
(***************************************************************************)
EXTENDS Integers, Sequences, FiniteSets, TLC

\* ------------------------------------------------------------------------
\* Values
\* ------------------------------------------------------------------------
Absent == "<absent>"     \* a flag that is not on the command line
Unset == "<unset>"       \* an environment variable that is not set
NoErr == "nil"

GenesisForkVersionMainnet == "0x00000000"
GenesisForkVersionKiln == "0x70000069"
GenesisForkVersionRopsten == "0x80000069"
GenesisForkVersionSepolia == "0x90000069"

hardRedisURI == "localhost:6379"
defaultListenAddr == "localhost:9062"
hardBeaconURI == ""
hardLogLevel == "info"

\* Strings tried for the custom genesis fork version (flag or environment):
\* the empty string, a well-formed version, a string that is not hex.
ForkVersionStrings == {"", "0x01000000", "zz"}
BoolFlagArgs == {Absent, "true", "false"}
RedisFlagArgs == {Absent, "redis-flag:6379"}
RedisEnvValues == {Unset, "redis-env:6379"}
ListenFlagArgs == {Absent, "0.0.0.0:9062"}
BeaconFlagArgs == {Absent, "http://beacon-flag:3500"}
BeaconEnvValues == {Unset, "http://beacon-env:3500"}
LogLevelFlagArgs == {Absent, "debug"}
LogLevelEnvValues == {Unset, "warn"}
LogJSONEnvValues == {Unset, "", "1", "false"}

\* ------------------------------------------------------------------------
\* int64 values, as eight bytes in two's complement, lowest byte first
\* ------------------------------------------------------------------------
AbsentInt == <<>>        \* the getheader-wait-ms flag is not on the command line

RECURSIVE NatBytes(_, _)
NatBytes(n, k) == IF k = 0 THEN <<>> ELSE <<n % 256>> \o NatBytes(n \div 256, k - 1)

Int64Bytes == 8
WideBytes == 12          \* wide enough for any int64 times 1000000

defaultGetHeaderWaitTimeMs == NatBytes(500, Int64Bytes)
Millisecond == NatBytes(1000000, Int64Bytes)     \* time.Millisecond, in nanoseconds

MsOne == <<1, 0, 0, 0, 0, 0, 0, 0>>    \* 1
MsMinusOne == <<255, 255, 255, 255, 255, 255, 255, 255>>    \* -1
MsZero == <<0, 0, 0, 0, 0, 0, 0, 0>>    \* 0
MsMaxExact == <<246, 90, 208, 123, 99, 8, 0, 0>>    \* 9223372036854
MsMinExact == <<10, 165, 47, 132, 156, 247, 255, 255>>    \* -9223372036854
MsFirstOverflow == <<247, 90, 208, 123, 99, 8, 0, 0>>    \* 9223372036855
MsFirstUnderflow == <<9, 165, 47, 132, 156, 247, 255, 255>>    \* -9223372036855
MsMaxInt64 == <<255, 255, 255, 255, 255, 255, 255, 127>>    \* 9223372036854775807
MsMinInt64 == <<0, 0, 0, 0, 0, 0, 0, 128>>    \* -9223372036854775808

WaitMsArgs ==
    {defaultGetHeaderWaitTimeMs, MsZero, MsOne, MsMinusOne, MsMaxExact,
     MsMinExact, MsFirstOverflow, MsFirstUnderflow, MsMaxInt64, MsMinInt64}

IsNegative(b) == b[Len(b)] >= 128

\* the same number in k bytes, k >= Len(b)
SignExtend(b, k) ==
    [i \in 1..k |-> IF i <= Len(b) THEN b[i] ELSE IF IsNegative(b) THEN 255 ELSE 0]

RECURSIVE ColumnSum(_, _, _, _)
ColumnSum(a, b, i, j) ==
    IF j > i THEN 0 ELSE a[j] * b[i + 1 - j] + ColumnSum(a, b, i, j + 1)

RECURSIVE MulFrom(_, _, _, _)
MulFrom(a, b, i, carry) ==
    IF i > Len(a) THEN <<>>
    ELSE LET t == carry + ColumnSum(a, b, i, 1)
         IN  <<t % 256>> \o MulFrom(a, b, i + 1, t \div 256)

\* the product of two numbers of Len(a) bytes, cut to Len(a) bytes: Go's
\* multiplication of fixed-width integers wraps around
MulWrap(a, b) == MulFrom(a, b, 1, 0)

\* the product as a number, without any cut
MulExact(a, b) == MulWrap(SignExtend(a, WideBytes), SignExtend(b, WideBytes))

\* signed comparison of two numbers of the same length
RECURSIVE UnsignedLess(_, _, _)
UnsignedLess(a, b, i) ==
    IF i = 0 THEN FALSE
    ELSE IF a[i] # b[i] THEN a[i] < b[i]
         ELSE UnsignedLess(a, b, i - 1)

SignedLessEq(a, b) ==
    IF IsNegative(a) # IsNegative(b) THEN IsNegative(a)
    ELSE a = b \/ UnsignedLess(a, b, Len(a))

\* time.Duration(ms) * time.Millisecond
DurationOfMs_Unscaled(ms) == ms

DurationOfMs(ms) == MulWrap(ms, Millisecond)

\* ------------------------------------------------------------------------
\* Secret-key strings, as sequences of characters
\* ------------------------------------------------------------------------
RECURSIVE Rep(_, _)
Rep(s, n) == IF n = 0 THEN <<>> ELSE s \o Rep(s, n - 1)

SecretKeyLength == 32

SkEmpty == <<>>
SkNoPrefix == <<"n", "o", "t", "-", "h", "e", "x">>
SkOdd == <<"0", "x", "0", "1", "a">>
SkBadDigit == <<"0", "x", "0", "1", "z", "z">>
SkShort == <<"0", "x", "0", "1">>
SkZero == <<"0", "x">> \o Rep(<<"0", "0">>, SecretKeyLength)
SkValid == <<"0", "x">> \o Rep(<<"0", "1">>, SecretKeyLength)
SkValidUpper == <<"0", "X">> \o Rep(<<"0", "A">>, SecretKeyLength)
SkTooBig == <<"0", "x">> \o Rep(<<"f", "f">>, SecretKeyLength)

SecretKeyArgs ==
    {SkEmpty, SkNoPrefix, SkOdd, SkBadDigit, SkShort, SkZero, SkValid,
     SkValidUpper, SkTooBig}

\* ------------------------------------------------------------------------
\* hexutil.Decode
\* ------------------------------------------------------------------------
LowerHex == <<"0", "1", "2", "3", "4", "5", "6", "7", "8", "9",
              "a", "b", "c", "d", "e", "f">>
UpperHex == <<"0", "1", "2", "3", "4", "5", "6", "7", "8", "9",
              "A", "B", "C", "D", "E", "F">>

\* value of a hex digit, -1 when the character is not one
fromHexChar(c) ==
    IF \E i \in 1..16 : LowerHex[i] = c
    THEN (CHOOSE i \in 1..16 : LowerHex[i] = c) - 1
    ELSE IF \E i \in 1..16 : UpperHex[i] = c
         THEN (CHOOSE i \in 1..16 : UpperHex[i] = c) - 1
         ELSE -1

has0xPrefix(input) ==
    Len(input) >= 2 /\ input[1] = "0" /\ (input[2] = "x" \/ input[2] = "X")

\* encoding/hex DecodeString: pairs are decoded left to right up to the first
\* bad character; a dangling last character is looked at after the pairs.
hexDecodeString(src) ==
    LET pairs == Len(src) \div 2
        badPairs == {j \in 1..pairs :
                        fromHexChar(src[2 * j - 1]) = -1 \/ fromHexChar(src[2 * j]) = -1}
        good == IF badPairs = {} THEN pairs
                ELSE (CHOOSE j \in badPairs : \A k \in badPairs : j <= k) - 1
        bytes == [j \in 1..good |->
                     16 * fromHexChar(src[2 * j - 1]) + fromHexChar(src[2 * j])]
    IN  IF badPairs # {} THEN [bytes |-> bytes, err |-> "invalid byte"]
        ELSE IF Len(src) % 2 = 1
             THEN IF fromHexChar(src[Len(src)]) = -1
                  THEN [bytes |-> bytes, err |-> "invalid byte"]
                  ELSE [bytes |-> bytes, err |-> "odd length"]
             ELSE [bytes |-> bytes, err |-> NoErr]

hexutilDecode(input) ==
    IF Len(input) = 0 THEN [bytes |-> <<>>, err |-> "empty hex string"]
    ELSE IF ~has0xPrefix(input)
         THEN [bytes |-> <<>>, err |-> "hex string without 0x prefix"]
         ELSE LET r == hexDecodeString(SubSeq(input, 3, Len(input)))
              IN  IF r.err = "invalid byte"
                  THEN [bytes |-> r.bytes, err |-> "invalid hex string"]
                  ELSE IF r.err = "odd length"
                       THEN [bytes |-> r.bytes, err |-> "hex string of odd length"]
                       ELSE r

\* ------------------------------------------------------------------------
\* bls.SecretKeyFromBytes
\* ------------------------------------------------------------------------
\* order of the BLS12-381 scalar field, big endian
CurveOrder ==
    <<115, 237, 167, 83, 41, 157, 125, 72, 51, 57, 216, 8, 9, 161, 216, 5,
      83, 189, 164, 2, 255, 254, 91, 254, 255, 255, 255, 255, 0, 0, 0, 1>>

RECURSIVE BytesLess(_, _)
BytesLess(a, b) ==
    IF Len(a) = 0 THEN FALSE
    ELSE IF a[1] # b[1] THEN a[1] < b[1]
         ELSE BytesLess(Tail(a), Tail(b))

SecretKeyFromBytes(skBytes) ==
    IF Len(skBytes) # SecretKeyLength
    THEN [sk |-> <<>>, err |-> "invalid secret key length"]
    ELSE IF (\A i \in 1..SecretKeyLength : skBytes[i] = 0) \/ ~BytesLess(skBytes, CurveOrder)
         THEN [sk |-> <<>>, err |-> "could not deserialize secret key"]
         ELSE [sk |-> skBytes, err |-> NoErr]

\* ------------------------------------------------------------------------
\* Collaborators of this repository that Run calls
\* ------------------------------------------------------------------------
BeaconNodeStates == {"synced", "syncing", "unreachable", "malformed"}

\* common.GetEnv: the variable's value when it is set, else the default
GetEnv(envValue, defaultValue) ==
    IF envValue # Unset THEN envValue ELSE defaultValue

\* beaconclient.NewProdBeaconClient: a client for the endpoint
NewProdBeaconClient(uri) == <<"ProdBeaconClient", uri>>

\* beaconclient SyncStatus: an error unless the node answers that it is synced
SyncStatus(node) ==
    CASE node = "synced" -> NoErr
      [] node = "syncing" -> "beacon node is syncing"
      [] node = "unreachable" -> "beacon node unreachable"
      [] OTHER -> "malformed sync status response"

\* datastore.NewRedisCache: a client for the endpoint, or an error
NewRedisCache(uri, reachable) ==
    IF reachable THEN [client |-> <<uri>>, err |-> NoErr]
    ELSE [client |-> <<>>, err |-> "redis connection failed"]

\* datastore.NewProdProposerDatastore: wraps the cache client
NewProdProposerDatastore(client) == <<"ProdProposerDatastore", client>>

\* api.NewRelayAPI: a service holding the options, or an error
NewRelayAPI(o, accepted) ==
    IF accepted THEN [srv |-> <<"RelayAPI", o>>, err |-> NoErr]
    ELSE [srv |-> <<>>, err |-> "relay api construction failed"]

\* ------------------------------------------------------------------------
\* State
\* ------------------------------------------------------------------------
VARIABLES
    osArgs,                          \* the command line, per flag
    environ,                         \* the environment variables read
    useGenesisForkVersionMainnet,
    useGenesisForkVersionKiln,
    useGenesisForkVersionRopsten,
    useGenesisForkVersionSepolia,
    useCustomGenesisForkVersion,
    redisURI,
    secretKey,
    listenAddr,
    beaconNodeURI,
    logJSON,
    logLevel,
    apiPprof,
    getHeaderWaitTimeMs,
    genesisForkVersionHex,           \* locals of Run
    beaconClient,
    redis,
    ds,
    envSkBytes,
    sk,
    opts,
    srv,
    err,
    pc,                              \* position of the process
    fatalMsg,                        \* what log.Fatal was called with
    calls,                           \* number of calls made, per collaborator
    callArgs,                        \* what each collaborator was last called with
    beaconNode                       \* state of the beacon node when asked

vars ==
    <<osArgs, environ, useGenesisForkVersionMainnet, useGenesisForkVersionKiln,
      useGenesisForkVersionRopsten, useGenesisForkVersionSepolia,
      useCustomGenesisForkVersion, redisURI, secretKey, listenAddr,
      beaconNodeURI, logJSON, logLevel, apiPprof, getHeaderWaitTimeMs,
      genesisForkVersionHex, beaconClient, redis, ds, envSkBytes, sk, opts,
      srv, err, pc, fatalMsg, calls, callArgs, beaconNode>>

inputVars == <<osArgs, environ>>
flagVars ==
    <<useGenesisForkVersionMainnet, useGenesisForkVersionKiln,
      useGenesisForkVersionRopsten, useGenesisForkVersionSepolia,
      useCustomGenesisForkVersion, redisURI, secretKey, listenAddr,
      beaconNodeURI, logJSON, logLevel, apiPprof, getHeaderWaitTimeMs>>

Collaborators ==
    {"SyncStatus", "NewRedisCache", "NewProdProposerDatastore", "Decode",
     "SecretKeyFromBytes", "NewRelayAPI", "StartServer"}

\* the flags named in MarkFlagsMutuallyExclusive
ExclusiveGroup == {"mainnet", "kiln", "ropsten", "sepolia", "genesis-fork-version"}

defaultredisURI == GetEnv(environ.REDIS_URI, hardRedisURI)
defaultGenesisForkVersion ==
    IF environ.GENESIS_FORK_VERSION = Unset THEN "" ELSE environ.GENESIS_FORK_VERSION
defaultBeaconURI == GetEnv(environ.BEACON_URI, hardBeaconURI)
\* variant: the LOG_LEVEL variable is not consulted
defaultLogLevel_NoEnv == hardLogLevel

defaultLogLevel == GetEnv(environ.LOG_LEVEL, hardLogLevel)
defaultLogJSON == environ.LOG_JSON \notin {Unset, ""}

\* Command lines and environments of the runs explored. NetArgs varies the
\* network-identity flags, the cache endpoint and the secret key; CfgArgs
\* varies the endpoints and the logging flags; WaitArgs varies the listen
\* address, the pprof flag and the wait time.
NetArgs ==
    [mainnet : BoolFlagArgs, kiln : BoolFlagArgs,
     ropsten : BoolFlagArgs, sepolia : BoolFlagArgs,
     custom : {Absent} \cup ForkVersionStrings,
     redisURI : RedisFlagArgs, secretKey : SecretKeyArgs,
     listenAddr : {Absent}, beaconURI : {Absent}, pprof : {Absent},
     waitMs : {AbsentInt}, json : {Absent}, loglevel : {Absent}]

NetEnvs ==
    [GENESIS_FORK_VERSION : {Unset} \cup (ForkVersionStrings \ {""}),
     REDIS_URI : RedisEnvValues,
     BEACON_URI : {Unset}, LOG_JSON : {Unset}, LOG_LEVEL : {Unset}]

CfgArgs ==
    [mainnet : {Absent, "true"}, kiln : {Absent},
     ropsten : {Absent}, sepolia : {Absent},
     custom : {Absent, "0x01000000"},
     redisURI : RedisFlagArgs, secretKey : {SkValid},
     listenAddr : {Absent}, beaconURI : BeaconFlagArgs, pprof : {Absent},
     waitMs : {AbsentInt}, json : BoolFlagArgs, loglevel : LogLevelFlagArgs]

CfgEnvs ==
    [GENESIS_FORK_VERSION : {Unset, "zz"},
     REDIS_URI : RedisEnvValues,
     BEACON_URI : BeaconEnvValues, LOG_JSON : LogJSONEnvValues,
     LOG_LEVEL : LogLevelEnvValues]

WaitArgs ==
    [mainnet : {"true"}, kiln : {Absent},
     ropsten : {Absent}, sepolia : {Absent},
     custom : {Absent},
     redisURI : {Absent}, secretKey : {SkValid},
     listenAddr : ListenFlagArgs, beaconURI : {Absent}, pprof : BoolFlagArgs,
     waitMs : {AbsentInt} \cup WaitMsArgs, json : {Absent}, loglevel : {Absent}]

WaitEnvs ==
    [GENESIS_FORK_VERSION : {Unset}, REDIS_URI : {Unset},
     BEACON_URI : {Unset}, LOG_JSON : {Unset}, LOG_LEVEL : {Unset}]

\* the state once init() has registered the flags: each flag variable holds
\* its default, Run has not started
InitWith(argSet, envSet) ==
    /\ osArgs \in argSet
    /\ environ \in envSet
    /\ useGenesisForkVersionMainnet = FALSE
    /\ useGenesisForkVersionKiln = FALSE
    /\ useGenesisForkVersionRopsten = FALSE
    /\ useGenesisForkVersionSepolia = FALSE
    /\ useCustomGenesisForkVersion = defaultGenesisForkVersion
    /\ redisURI = defaultredisURI
    /\ secretKey = <<>>
    /\ listenAddr = defaultListenAddr
    /\ beaconNodeURI = defaultBeaconURI
    /\ logJSON = defaultLogJSON
    /\ logLevel = defaultLogLevel
    /\ apiPprof = FALSE
    /\ getHeaderWaitTimeMs = defaultGetHeaderWaitTimeMs
    /\ genesisForkVersionHex = ""
    /\ beaconClient = <<>>
    /\ redis = <<>>
    /\ ds = <<>>
    /\ envSkBytes = <<>>
    /\ sk = <<>>
    /\ opts = <<>>
    /\ srv = <<>>
    /\ err = NoErr
    /\ pc = "start"
    /\ fatalMsg = <<>>
    /\ calls = [c \in Collaborators |-> 0]
    /\ callArgs = [c \in Collaborators |-> <<>>]
    /\ beaconNode = "unknown"

Init == InitWith(NetArgs, NetEnvs)

CfgInit == InitWith(CfgArgs, CfgEnvs) \/ InitWith(WaitArgs, WaitEnvs)

\* ------------------------------------------------------------------------
\* Flag parsing (cobra, before Run)
\* ------------------------------------------------------------------------
BoolFlag(arg, default) == IF arg = Absent THEN default ELSE arg = "true"
StringFlag(arg, default) == IF arg = Absent THEN default ELSE arg
Int64Flag(arg, default) == IF arg = AbsentInt THEN default ELSE arg

\* flags of the exclusive group that were set on the command line
ChangedInGroup(args) ==
    {f \in ExclusiveGroup :
        \/ f = "mainnet" /\ args.mainnet # Absent
        \/ f = "kiln" /\ args.kiln # Absent
        \/ f = "ropsten" /\ args.ropsten # Absent
        \/ f = "sepolia" /\ args.sepolia # Absent
        \/ f = "genesis-fork-version" /\ args.custom # Absent}

\* MarkFlagsMutuallyExclusive: an error when more than one was set
FlagGroupsValid(args) == Cardinality(ChangedInGroup(args)) <= 1

ParseFlags ==
    /\ pc = "start"
    /\ useGenesisForkVersionMainnet' = BoolFlag(osArgs.mainnet, useGenesisForkVersionMainnet)
    /\ useGenesisForkVersionKiln' = BoolFlag(osArgs.kiln, useGenesisForkVersionKiln)
    /\ useGenesisForkVersionRopsten' = BoolFlag(osArgs.ropsten, useGenesisForkVersionRopsten)
    /\ useGenesisForkVersionSepolia' = BoolFlag(osArgs.sepolia, useGenesisForkVersionSepolia)
    /\ useCustomGenesisForkVersion' = StringFlag(osArgs.custom, useCustomGenesisForkVersion)
    /\ redisURI' = StringFlag(osArgs.redisURI, redisURI)
    /\ secretKey' = osArgs.secretKey
    /\ listenAddr' = StringFlag(osArgs.listenAddr, listenAddr)
    /\ beaconNodeURI' = StringFlag(osArgs.beaconURI, beaconNodeURI)
    /\ logJSON' = BoolFlag(osArgs.json, logJSON)
    /\ logLevel' = StringFlag(osArgs.loglevel, logLevel)
    /\ apiPprof' = BoolFlag(osArgs.pprof, apiPprof)
    /\ getHeaderWaitTimeMs' = Int64Flag(osArgs.waitMs, getHeaderWaitTimeMs)
    /\ pc' = IF FlagGroupsValid(osArgs) THEN "run" ELSE "flag_error"
    /\ UNCHANGED <<inputVars, genesisForkVersionHex, beaconClient, redis, ds,
                   envSkBytes, sk, opts, srv, err, fatalMsg, calls, callArgs, beaconNode>>

\* ------------------------------------------------------------------------
\* apiCmd.Run
\* ------------------------------------------------------------------------
Bump(c) == [calls EXCEPT ![c] = @ + 1]

\* variant: the named networks are tested before the custom value
ResolveGenesisForkVersion_NamedFirst(custom, mainnet, kiln, ropsten, sepolia) ==
    IF mainnet THEN GenesisForkVersionMainnet
    ELSE IF kiln THEN GenesisForkVersionKiln
    ELSE IF ropsten THEN GenesisForkVersionRopsten
    ELSE IF sepolia THEN GenesisForkVersionSepolia
    ELSE custom

\* variant: kiln is tested before mainnet
ResolveGenesisForkVersion_KilnFirst(custom, mainnet, kiln, ropsten, sepolia) ==
    IF custom # "" THEN custom
    ELSE IF kiln THEN GenesisForkVersionKiln
    ELSE IF mainnet THEN GenesisForkVersionMainnet
    ELSE IF ropsten THEN GenesisForkVersionRopsten
    ELSE IF sepolia THEN GenesisForkVersionSepolia
    ELSE ""

\* the if/else-if chain that picks the genesis fork version; "" when no
\* branch but the last applies
ResolveGenesisForkVersion(custom, mainnet, kiln, ropsten, sepolia) ==
    IF custom # "" THEN custom
    ELSE IF mainnet THEN GenesisForkVersionMainnet
    ELSE IF kiln THEN GenesisForkVersionKiln
    ELSE IF ropsten THEN GenesisForkVersionRopsten
    ELSE IF sepolia THEN GenesisForkVersionSepolia
    ELSE ""

NoIdentity(custom, mainnet, kiln, ropsten, sepolia) ==
    custom = "" /\ ~mainnet /\ ~kiln /\ ~ropsten /\ ~sepolia

MsgNoGenesis == "Please specify a genesis fork version (eg. -mainnet or -kiln or -ropsten or -genesis-fork-version flags)"
MsgBeacon == "Beacon node is syncing"
MsgRedis == "Failed to connect to Redis at %s"
MsgDecode == "incorrect secret key provided"
MsgKey == "incorrect builder API secret key provided"
MsgCreate == "failed to create service"

\* variant: a custom value that is not a well-formed version is refused
ResolveIdentity_Validated ==
    /\ pc = "run"
    /\ genesisForkVersionHex' =
           ResolveGenesisForkVersion(useCustomGenesisForkVersion,
               useGenesisForkVersionMainnet, useGenesisForkVersionKiln,
               useGenesisForkVersionRopsten, useGenesisForkVersionSepolia)
    /\ IF \/ NoIdentity(useCustomGenesisForkVersion,
                 useGenesisForkVersionMainnet, useGenesisForkVersionKiln,
                 useGenesisForkVersionRopsten, useGenesisForkVersionSepolia)
          \/ useCustomGenesisForkVersion \notin {"", "0x01000000"}
       THEN pc' = "fatal" /\ fatalMsg' = <<MsgNoGenesis>>
       ELSE pc' = "beacon" /\ fatalMsg' = fatalMsg
    /\ UNCHANGED <<inputVars, flagVars, beaconClient, redis, ds, envSkBytes,
                   sk, opts, srv, err, calls, callArgs, beaconNode>>

\* Set genesis fork version
ResolveIdentity ==
    /\ pc = "run"
    /\ genesisForkVersionHex' =
           ResolveGenesisForkVersion(useCustomGenesisForkVersion,
               useGenesisForkVersionMainnet, useGenesisForkVersionKiln,
               useGenesisForkVersionRopsten, useGenesisForkVersionSepolia)
    /\ IF NoIdentity(useCustomGenesisForkVersion,
              useGenesisForkVersionMainnet, useGenesisForkVersionKiln,
              useGenesisForkVersionRopsten, useGenesisForkVersionSepolia)
       THEN pc' = "fatal" /\ fatalMsg' = <<MsgNoGenesis>>
       ELSE pc' = "beacon" /\ fatalMsg' = fatalMsg
    /\ UNCHANGED <<inputVars, flagVars, beaconClient, redis, ds, envSkBytes,
                   sk, opts, srv, err, calls, callArgs, beaconNode>>

\* variant: the error of SyncStatus is logged and startup goes on
BeaconCheck_ErrorLogged ==
    /\ pc = "beacon"
    /\ \E node \in BeaconNodeStates :
        /\ beaconNode' = node
        /\ beaconClient' = NewProdBeaconClient(beaconNodeURI)
        /\ calls' = Bump("SyncStatus")
        /\ callArgs' = [callArgs EXCEPT !["SyncStatus"] = <<beaconNodeURI>>]
        /\ err' = SyncStatus(node)
        /\ pc' = "redis"
        /\ fatalMsg' = fatalMsg
    /\ UNCHANGED <<inputVars, flagVars, genesisForkVersionHex, redis, ds,
                   envSkBytes, sk, opts, srv>>

\* variant: the test of the error is inverted
BeaconCheck_Inverted ==
    /\ pc = "beacon"
    /\ \E node \in BeaconNodeStates :
        /\ beaconNode' = node
        /\ beaconClient' = NewProdBeaconClient(beaconNodeURI)
        /\ calls' = Bump("SyncStatus")
        /\ callArgs' = [callArgs EXCEPT !["SyncStatus"] = <<beaconNodeURI>>]
        /\ err' = SyncStatus(node)
        /\ IF err' = NoErr
           THEN pc' = "fatal" /\ fatalMsg' = <<MsgBeacon, err'>>
           ELSE pc' = "redis" /\ fatalMsg' = fatalMsg
    /\ UNCHANGED <<inputVars, flagVars, genesisForkVersionHex, redis, ds,
                   envSkBytes, sk, opts, srv>>

\* variant: a failed query is tried a second time
BeaconCheck_Retry ==
    /\ pc = "beacon"
    /\ \E node \in BeaconNodeStates :
        /\ beaconNode' = node
        /\ beaconClient' = NewProdBeaconClient(beaconNodeURI)
        /\ calls' = Bump("SyncStatus")
        /\ callArgs' = [callArgs EXCEPT !["SyncStatus"] = <<beaconNodeURI>>]
        /\ err' = SyncStatus(node)
        /\ IF err' # NoErr
           THEN IF calls["SyncStatus"] = 0
                THEN pc' = "beacon" /\ fatalMsg' = fatalMsg
                ELSE pc' = "fatal" /\ fatalMsg' = <<MsgBeacon, err'>>
           ELSE pc' = "redis" /\ fatalMsg' = fatalMsg
    /\ UNCHANGED <<inputVars, flagVars, genesisForkVersionHex, redis, ds,
                   envSkBytes, sk, opts, srv>>

\* Connect to beacon client and ensure it's synced
BeaconCheck ==
    /\ pc = "beacon"
    /\ \E node \in BeaconNodeStates :
        /\ beaconNode' = node
        /\ beaconClient' = NewProdBeaconClient(beaconNodeURI)
        /\ calls' = Bump("SyncStatus")
        /\ callArgs' = [callArgs EXCEPT !["SyncStatus"] = <<beaconNodeURI>>]
        /\ err' = SyncStatus(node)
        /\ IF err' # NoErr
           THEN pc' = "fatal" /\ fatalMsg' = <<MsgBeacon, err'>>
           ELSE pc' = "redis" /\ fatalMsg' = fatalMsg
    /\ UNCHANGED <<inputVars, flagVars, genesisForkVersionHex, redis, ds,
                   envSkBytes, sk, opts, srv>>

\* variant: the error of NewRedisCache is not looked at
ConnectRedis_ErrorIgnored ==
    /\ pc = "redis"
    /\ \E reachable \in BOOLEAN :
        LET r == NewRedisCache(redisURI, reachable)
        IN  /\ redis' = r.client
            /\ err' = r.err
            /\ calls' = Bump("NewRedisCache")
            /\ callArgs' = [callArgs EXCEPT !["NewRedisCache"] = <<redisURI>>]
            /\ pc' = "datastore"
            /\ fatalMsg' = fatalMsg
    /\ UNCHANGED <<inputVars, flagVars, genesisForkVersionHex, beaconClient,
                   ds, envSkBytes, sk, opts, srv, beaconNode>>

\* variant: the fatal message does not carry the endpoint
ConnectRedis_NoEndpoint ==
    /\ pc = "redis"
    /\ \E reachable \in BOOLEAN :
        LET r == NewRedisCache(redisURI, reachable)
        IN  /\ redis' = r.client
            /\ err' = r.err
            /\ calls' = Bump("NewRedisCache")
            /\ callArgs' = [callArgs EXCEPT !["NewRedisCache"] = <<redisURI>>]
            /\ IF r.err # NoErr
               THEN pc' = "fatal" /\ fatalMsg' = <<MsgRedis, "", r.err>>
               ELSE pc' = "datastore" /\ fatalMsg' = fatalMsg
    /\ UNCHANGED <<inputVars, flagVars, genesisForkVersionHex, beaconClient,
                   ds, envSkBytes, sk, opts, srv, beaconNode>>

\* Connect to Redis
ConnectRedis ==
    /\ pc = "redis"
    /\ \E reachable \in BOOLEAN :
        LET r == NewRedisCache(redisURI, reachable)
        IN  /\ redis' = r.client
            /\ err' = r.err
            /\ calls' = Bump("NewRedisCache")
            /\ callArgs' = [callArgs EXCEPT !["NewRedisCache"] = <<redisURI>>]
            /\ IF r.err # NoErr
               THEN pc' = "fatal" /\ fatalMsg' = <<MsgRedis, redisURI, r.err>>
               ELSE pc' = "datastore" /\ fatalMsg' = fatalMsg
    /\ UNCHANGED <<inputVars, flagVars, genesisForkVersionHex, beaconClient,
                   ds, envSkBytes, sk, opts, srv, beaconNode>>

\* ... and setup the datastore
SetupDatastore ==
    /\ pc = "datastore"
    /\ ds' = NewProdProposerDatastore(redis)
    /\ calls' = Bump("NewProdProposerDatastore")
    /\ callArgs' = [callArgs EXCEPT !["NewProdProposerDatastore"] = <<redis>>]
    /\ pc' = "decode"
    /\ UNCHANGED <<inputVars, flagVars, genesisForkVersionHex, beaconClient,
                   redis, envSkBytes, sk, opts, srv, err, fatalMsg, beaconNode>>

\* variant: the error of hexutil.Decode is not looked at
DecodeSecretKey_ErrorIgnored ==
    /\ pc = "decode"
    /\ LET r == hexutilDecode(secretKey)
       IN  /\ envSkBytes' = r.bytes
           /\ err' = r.err
           /\ calls' = Bump("Decode")
           /\ callArgs' = [callArgs EXCEPT !["Decode"] = <<secretKey>>]
           /\ pc' = "key"
           /\ fatalMsg' = fatalMsg
    /\ UNCHANGED <<inputVars, flagVars, genesisForkVersionHex, beaconClient,
                   redis, ds, sk, opts, srv, beaconNode>>

\* Decode the private key
DecodeSecretKey ==
    /\ pc = "decode"
    /\ LET r == hexutilDecode(secretKey)
       IN  /\ envSkBytes' = r.bytes
           /\ err' = r.err
           /\ calls' = Bump("Decode")
           /\ callArgs' = [callArgs EXCEPT !["Decode"] = <<secretKey>>]
           /\ IF r.err # NoErr
              THEN pc' = "fatal" /\ fatalMsg' = <<MsgDecode, r.err>>
              ELSE pc' = "key" /\ fatalMsg' = fatalMsg
    /\ UNCHANGED <<inputVars, flagVars, genesisForkVersionHex, beaconClient,
                   redis, ds, sk, opts, srv, beaconNode>>

\* variant: an invalid key is reported with the message of the decoding step
ValidateSecretKey_SameMessage ==
    /\ pc = "key"
    /\ LET r == SecretKeyFromBytes(envSkBytes)
       IN  /\ sk' = r.sk
           /\ err' = r.err
           /\ calls' = Bump("SecretKeyFromBytes")
           /\ callArgs' = [callArgs EXCEPT !["SecretKeyFromBytes"] = <<envSkBytes>>]
           /\ IF r.err # NoErr
              THEN pc' = "fatal" /\ fatalMsg' = <<MsgDecode, r.err>>
              ELSE pc' = "opts" /\ fatalMsg' = fatalMsg
    /\ UNCHANGED <<inputVars, flagVars, genesisForkVersionHex, beaconClient,
                   redis, ds, envSkBytes, opts, srv, beaconNode>>

\* variant: an invalid key is logged and startup goes on
ValidateSecretKey_ErrorLogged ==
    /\ pc = "key"
    /\ LET r == SecretKeyFromBytes(envSkBytes)
       IN  /\ sk' = r.sk
           /\ err' = r.err
           /\ calls' = Bump("SecretKeyFromBytes")
           /\ callArgs' = [callArgs EXCEPT !["SecretKeyFromBytes"] = <<envSkBytes>>]
           /\ pc' = "opts"
           /\ fatalMsg' = fatalMsg
    /\ UNCHANGED <<inputVars, flagVars, genesisForkVersionHex, beaconClient,
                   redis, ds, envSkBytes, opts, srv, beaconNode>>

ValidateSecretKey ==
    /\ pc = "key"
    /\ LET r == SecretKeyFromBytes(envSkBytes)
       IN  /\ sk' = r.sk
           /\ err' = r.err
           /\ calls' = Bump("SecretKeyFromBytes")
           /\ callArgs' = [callArgs EXCEPT !["SecretKeyFromBytes"] = <<envSkBytes>>]
           /\ IF r.err # NoErr
              THEN pc' = "fatal" /\ fatalMsg' = <<MsgKey, r.err>>
              ELSE pc' = "opts" /\ fatalMsg' = fatalMsg
    /\ UNCHANGED <<inputVars, flagVars, genesisForkVersionHex, beaconClient,
                   redis, ds, envSkBytes, opts, srv, beaconNode>>

\* variant: the options take the default listen address, not the configured one
BuildOpts_DefaultListen ==
    /\ pc = "opts"
    /\ opts' = [Log |-> "cmd/api",
                ListenAddr |-> defaultListenAddr,
                BeaconClient |-> beaconClient,
                Datastore |-> ds,
                GenesisForkVersionHex |-> genesisForkVersionHex,
                PprofAPI |-> apiPprof,
                GetHeaderWaitTime |-> DurationOfMs(getHeaderWaitTimeMs),
                SecretKey |-> sk]
    /\ pc' = "create"
    /\ UNCHANGED <<inputVars, flagVars, genesisForkVersionHex, beaconClient,
                   redis, ds, envSkBytes, sk, srv, err, fatalMsg, calls, callArgs,
                   beaconNode>>

BuildOpts ==
    /\ pc = "opts"
    /\ opts' = [Log |-> "cmd/api",
                ListenAddr |-> listenAddr,
                BeaconClient |-> beaconClient,
                Datastore |-> ds,
                GenesisForkVersionHex |-> genesisForkVersionHex,
                PprofAPI |-> apiPprof,
                GetHeaderWaitTime |-> DurationOfMs(getHeaderWaitTimeMs),
                SecretKey |-> sk]
    /\ pc' = "create"
    /\ UNCHANGED <<inputVars, flagVars, genesisForkVersionHex, beaconClient,
                   redis, ds, envSkBytes, sk, srv, err, fatalMsg, calls, callArgs,
                   beaconNode>>

\* variant: the test of the constructor's error is inverted
CreateService_Inverted ==
    /\ pc = "create"
    /\ \E accepted \in BOOLEAN :
        LET r == NewRelayAPI(opts, accepted)
        IN  /\ srv' = r.srv
            /\ err' = r.err
            /\ calls' = Bump("NewRelayAPI")
            /\ callArgs' = [callArgs EXCEPT !["NewRelayAPI"] = <<opts>>]
            /\ IF r.err = NoErr
               THEN pc' = "fatal" /\ fatalMsg' = <<MsgCreate, r.err>>
               ELSE pc' = "start_server" /\ fatalMsg' = fatalMsg
    /\ UNCHANGED <<inputVars, flagVars, genesisForkVersionHex, beaconClient,
                   redis, ds, envSkBytes, sk, opts, beaconNode>>

\* Create the relay service
CreateService ==
    /\ pc = "create"
    /\ \E accepted \in BOOLEAN :
        LET r == NewRelayAPI(opts, accepted)
        IN  /\ srv' = r.srv
            /\ err' = r.err
            /\ calls' = Bump("NewRelayAPI")
            /\ callArgs' = [callArgs EXCEPT !["NewRelayAPI"] = <<opts>>]
            /\ IF r.err # NoErr
               THEN pc' = "fatal" /\ fatalMsg' = <<MsgCreate, r.err>>
               ELSE pc' = "start_server" /\ fatalMsg' = fatalMsg
    /\ UNCHANGED <<inputVars, flagVars, genesisForkVersionHex, beaconClient,
                   redis, ds, envSkBytes, sk, opts, beaconNode>>

\* Start the server: the call blocks while the server runs
StartServer ==
    /\ pc = "start_server"
    /\ calls' = Bump("StartServer")
    /\ callArgs' = [callArgs EXCEPT !["StartServer"] = <<srv>>]
    /\ pc' = "serving"
    /\ UNCHANGED <<inputVars, flagVars, genesisForkVersionHex, beaconClient,
                   redis, ds, envSkBytes, sk, opts, srv, err, fatalMsg,
                   beaconNode>>

\* variant: only an error of StartServer is fatal, a nil result ends Run
ServerReturns_NilIsClean ==
    /\ pc = "serving"
    /\ \E e \in {NoErr, "listen failed"} :
        /\ pc' = IF e = NoErr THEN "done" ELSE "fatal"
        /\ fatalMsg' = IF e = NoErr THEN fatalMsg ELSE <<e>>
    /\ UNCHANGED <<inputVars, flagVars, genesisForkVersionHex, beaconClient,
                   redis, ds, envSkBytes, sk, opts, srv, err, calls, callArgs,
                   beaconNode>>

\* StartServer returns and its result goes to log.Fatal
ServerReturns ==
    /\ pc = "serving"
    /\ \E e \in {NoErr, "listen failed"} :
        /\ pc' = "fatal"
        /\ fatalMsg' = <<e>>
    /\ UNCHANGED <<inputVars, flagVars, genesisForkVersionHex, beaconClient,
                   redis, ds, envSkBytes, sk, opts, srv, err, calls, callArgs,
                   beaconNode>>

Bootstrap ==
    \/ ParseFlags
    \/ ResolveIdentity
    \/ BeaconCheck
    \/ ConnectRedis
    \/ SetupDatastore
    \/ DecodeSecretKey
    \/ ValidateSecretKey
    \/ BuildOpts
    \/ CreateService
    \/ StartServer

Next == Bootstrap \/ ServerReturns

Spec == Init /\ [][Next]_vars

\* every call made during startup returns; the server may run forever
FairSpec == Spec /\ WF_vars(Bootstrap)

\* the same program, started with the command lines and environments that
\* vary the configuration values
CfgSpec == CfgInit /\ [][Next]_vars

\* Run entered with the flag variables set directly (they are package
\* variables), whatever their combination: the command line is empty and
\* parsing is not part of the run.
NoArgs ==
    [mainnet |-> Absent, kiln |-> Absent, ropsten |-> Absent, sepolia |-> Absent,
     custom |-> Absent, redisURI |-> Absent, secretKey |-> <<>>,
     listenAddr |-> Absent, beaconURI |-> Absent, pprof |-> Absent,
     waitMs |-> AbsentInt, json |-> Absent, loglevel |-> Absent]

RunInit ==
    /\ osArgs = NoArgs
    /\ environ \in WaitEnvs
    /\ useGenesisForkVersionMainnet \in BOOLEAN
    /\ useGenesisForkVersionKiln \in BOOLEAN
    /\ useGenesisForkVersionRopsten \in BOOLEAN
    /\ useGenesisForkVersionSepolia \in BOOLEAN
    /\ useCustomGenesisForkVersion \in ForkVersionStrings
    /\ redisURI = defaultredisURI
    /\ secretKey \in {SkValid, SkNoPrefix}
    /\ listenAddr = defaultListenAddr
    /\ beaconNodeURI = defaultBeaconURI
    /\ logJSON = defaultLogJSON
    /\ logLevel = defaultLogLevel
    /\ apiPprof = FALSE
    /\ getHeaderWaitTimeMs = defaultGetHeaderWaitTimeMs
    /\ genesisForkVersionHex = ""
    /\ beaconClient = <<>>
    /\ redis = <<>>
    /\ ds = <<>>
    /\ envSkBytes = <<>>
    /\ sk = <<>>
    /\ opts = <<>>
    /\ srv = <<>>
    /\ err = NoErr
    /\ pc = "run"
    /\ fatalMsg = <<>>
    /\ calls = [c \in Collaborators |-> 0]
    /\ callArgs = [c \in Collaborators |-> <<>>]
    /\ beaconNode = "unknown"

RunNext ==
    \/ ResolveIdentity
    \/ BeaconCheck
    \/ ConnectRedis
    \/ SetupDatastore
    \/ DecodeSecretKey
    \/ ValidateSecretKey
    \/ BuildOpts
    \/ CreateService
    \/ StartServer
    \/ ServerReturns

RunSpec == RunInit /\ [][RunNext]_vars

\* ------------------------------------------------------------------------
\* Properties
\* ------------------------------------------------------------------------
\* the value each network-identity flag variable has once the command line
\* is parsed, and the sources that are then active
cfgCustom == StringFlag(osArgs.custom, defaultGenesisForkVersion)
cfgRedisURI == StringFlag(osArgs.redisURI, defaultredisURI)

ActiveSources ==
    {f \in ExclusiveGroup :
        \/ f = "genesis-fork-version" /\ cfgCustom # ""
        \/ f = "mainnet" /\ osArgs.mainnet = "true"
        \/ f = "kiln" /\ osArgs.kiln = "true"
        \/ f = "ropsten" /\ osArgs.ropsten = "true"
        \/ f = "sepolia" /\ osArgs.sepolia = "true"}

Parsed == pc # "start"
Failed == pc \in {"fatal", "flag_error"}
SyncFailed == calls["SyncStatus"] > 0 /\ SyncStatus(beaconNode) # NoErr
RedisFailed == calls["NewRedisCache"] > 0 /\ redis = <<>>
DecodeFailed == calls["Decode"] > 0 /\ hexutilDecode(secretKey).err # NoErr
KeyRejected ==
    calls["SecretKeyFromBytes"] > 0 /\ SecretKeyFromBytes(envSkBytes).err # NoErr

\* C1: when the number of active network-identity sources is zero or more
\* than one, the run is a failed one and neither the beacon sync-status query
\* nor the cache connection is ever invoked.
C1_NoIOUnlessOneSource ==
    (Parsed /\ Cardinality(ActiveSources) # 1) =>
        /\ pc \in {"run", "fatal", "flag_error"}
        /\ calls["SyncStatus"] = 0
        /\ calls["NewRedisCache"] = 0

\* C2: a beacon node that reports it is still syncing aborts startup: the
\* run is at fatal-exit with the beacon message, the cache connection was not
\* attempted and the server is not started.
C2_SyncingAborts ==
    beaconNode = "syncing" =>
        /\ pc = "fatal"
        /\ fatalMsg[1] = MsgBeacon
        /\ calls["NewRedisCache"] = 0
        /\ calls["StartServer"] = 0

C2_Witness == beaconNode = "syncing" /\ calls["SyncStatus"] = 1 /\ pc = "fatal"

\* C3: when the sync-status query returned an error, no later step has run:
\* no cache connection, no datastore, no key loading, no service
\* construction, no serving; the run is at fatal-exit.
C3_SyncErrorStopsPipeline ==
    SyncFailed =>
        /\ pc = "fatal"
        /\ \A c \in Collaborators \ {"SyncStatus"} : calls[c] = 0
        /\ redis = <<>> /\ ds = <<>> /\ envSkBytes = <<>> /\ sk = <<>>
        /\ opts = <<>> /\ srv = <<>>

C3_Witness == SyncFailed /\ beaconNode = "unreachable" /\ pc = "fatal"

\* C4: once the identity is resolved, a non-empty custom override is the
\* resolved identity, whatever the four named flags are.
C4_CustomPrecedence ==
    (pc \notin {"start", "run", "flag_error"} /\ useCustomGenesisForkVersion # "") =>
        genesisForkVersionHex = useCustomGenesisForkVersion

C4_Witness ==
    /\ pc = "beacon"
    /\ useCustomGenesisForkVersion # ""
    /\ useGenesisForkVersionMainnet
    /\ genesisForkVersionHex = useCustomGenesisForkVersion

\* C5: when hex-decoding of the secret key failed, the run is at fatal-exit
\* with the decoding message, and neither the service constructor nor the
\* server has been started.
C5_DecodeFailureStops ==
    DecodeFailed =>
        /\ pc = "fatal"
        /\ fatalMsg = <<MsgDecode, hexutilDecode(secretKey).err>>
        /\ calls["NewRelayAPI"] = 0
        /\ calls["StartServer"] = 0
        /\ opts = <<>> /\ srv = <<>>

C5_Witness ==
    DecodeFailed /\ pc = "fatal" /\ secretKey = SkBadDigit /\ calls["NewRelayAPI"] = 0

\* C6: key loading fails at two points with two different messages: the
\* string is not hex, or the decoded bytes are not a valid key; the bytes are
\* validated only after decoding succeeded, and in both cases no service is
\* constructed.
C6_TwoKeyFailures ==
    /\ MsgDecode # MsgKey
    /\ calls["SecretKeyFromBytes"] > 0 =>
           calls["Decode"] = 1 /\ hexutilDecode(secretKey).err = NoErr
    /\ DecodeFailed =>
           /\ pc = "fatal" /\ fatalMsg[1] = MsgDecode
           /\ calls["SecretKeyFromBytes"] = 0 /\ calls["NewRelayAPI"] = 0
    /\ KeyRejected =>
           /\ pc = "fatal" /\ fatalMsg[1] = MsgKey
           /\ calls["NewRelayAPI"] = 0
    /\ (pc = "fatal" /\ fatalMsg[1] = MsgDecode) => DecodeFailed
    /\ (pc = "fatal" /\ fatalMsg[1] = MsgKey) => KeyRejected

C6_Witness == KeyRejected /\ pc = "fatal" /\ fatalMsg[1] = MsgKey

\* C7 as stated: with exactly one active network identity, a run in which no
\* call fails eventually reaches serving.
C7_OneSourceServes ==
    (pc = "start" /\ Cardinality(ActiveSources) = 1) ~> (pc = "serving" \/ err # NoErr)

\* C7 amended: with exactly one active network identity and at most one
\* flag of the exclusive group on the command line, a run in which no call
\* fails eventually reaches serving.
C7_OneSourceOneFlagServes ==
    (pc = "start" /\ Cardinality(ActiveSources) = 1 /\ FlagGroupsValid(osArgs))
        ~> (pc = "serving" \/ err # NoErr)

C7_Witness ==
    /\ pc = "serving"
    /\ Cardinality(ActiveSources) = 1
    /\ err = NoErr
    /\ calls["StartServer"] = 1

\* C8: a run is at fatal-exit because of the secret key only when the
\* identity was resolved, the sync-status query was made and succeeded, and
\* the cache connection was made and succeeded.
C8_KeyFailureIsLate ==
    (pc = "fatal" /\ fatalMsg[1] \in {MsgDecode, MsgKey}) =>
        /\ genesisForkVersionHex # ""
        /\ calls["SyncStatus"] = 1 /\ SyncStatus(beaconNode) = NoErr
        /\ calls["NewRedisCache"] = 1 /\ redis = <<cfgRedisURI>>
        /\ ds = NewProdProposerDatastore(redis)

C8_Witness ==
    /\ pc = "fatal"
    /\ fatalMsg[1] = MsgDecode
    /\ secretKey = SkNoPrefix
    /\ beaconNode = "synced"
    /\ redis # <<>>

\* C9: the sync-status query and the cache connection are each made at most
\* once, a call is only ever issued when it was not issued before, a run
\* that has resolved its identity makes the sync-status query and has made
\* it exactly once from then on, and a failed call leaves the run at
\* fatal-exit for good.
C9_NoRetry ==
    /\ [](calls["SyncStatus"] <= 1 /\ calls["NewRedisCache"] <= 1)
    /\ [][/\ calls'["SyncStatus"] # calls["SyncStatus"] => calls["SyncStatus"] = 0
          /\ calls'["NewRedisCache"] # calls["NewRedisCache"] => calls["NewRedisCache"] = 0
          /\ pc = "fatal" => pc' = "fatal"]_vars
    /\ []((SyncFailed \/ RedisFailed) => pc = "fatal")
    /\ [](pc \notin {"start", "run", "flag_error", "beacon"} /\ genesisForkVersionHex # ""
             => calls["SyncStatus"] = 1)
    /\ (pc = "beacon") ~> (calls["SyncStatus"] = 1)

C9_Witness == SyncFailed /\ calls["SyncStatus"] = 1 /\ pc = "fatal" /\ beaconNode = "malformed"

\* C10: when the cache connection failed, the run is at fatal-exit with a
\* message that carries the configured endpoint, no datastore wrapper exists
\* and key loading has not started; a wrapper exists only around a
\* connection that succeeded.
C10_RedisFailure ==
    /\ RedisFailed =>
           /\ pc = "fatal"
           /\ fatalMsg[1] = MsgRedis /\ fatalMsg[2] = cfgRedisURI
           /\ ds = <<>> /\ calls["NewProdProposerDatastore"] = 0
           /\ calls["Decode"] = 0 /\ calls["SecretKeyFromBytes"] = 0
    /\ (ds # <<>> \/ calls["NewProdProposerDatastore"] > 0) =>
           /\ calls["NewRedisCache"] = 1
           /\ redis = <<cfgRedisURI>>
           /\ ds = NewProdProposerDatastore(redis)

C10_Witness ==
    /\ RedisFailed
    /\ pc = "fatal"
    /\ fatalMsg[1] = MsgRedis
    /\ fatalMsg[2] = "redis-env:6379"

\* the wait time handed to the service is the number of milliseconds asked
\* for, times 1000000, as a number
cfgWaitMs == Int64Flag(osArgs.waitMs, defaultGetHeaderWaitTimeMs)
WaitTimeExact ==
    /\ getHeaderWaitTimeMs = cfgWaitMs
    /\ SignExtend(opts.GetHeaderWaitTime, WideBytes) = MulExact(cfgWaitMs, Millisecond)
WaitMsInRange ==
    SignedLessEq(MsMinExact, cfgWaitMs) /\ SignedLessEq(cfgWaitMs, MsMaxExact)

\* C11 as stated: for every int64 value n of getheader-wait-ms, the
\* GetHeaderWaitTime of the options is exactly n milliseconds, and 500 gives
\* 500 milliseconds.
C11_WaitRoundTrip ==
    opts # <<>> =>
        /\ WaitTimeExact
        /\ osArgs.waitMs = NatBytes(500, Int64Bytes) =>
               opts.GetHeaderWaitTime = NatBytes(500000000, Int64Bytes)

\* C11 amended: for every n from -9223372036854 to 9223372036854, the
\* GetHeaderWaitTime of the options is exactly n milliseconds, whatever the
\* default is, and 500 gives 500 milliseconds.
C11_WaitRoundTripInRange ==
    opts # <<>> =>
        /\ WaitMsInRange => WaitTimeExact
        /\ osArgs.waitMs = NatBytes(500, Int64Bytes) =>
               opts.GetHeaderWaitTime = NatBytes(500000000, Int64Bytes)

C11_Witness ==
    /\ calls["NewRelayAPI"] = 1
    /\ osArgs.waitMs = MsMinExact
    /\ WaitMsInRange
    /\ callArgs["NewRelayAPI"][1].GetHeaderWaitTime = opts.GetHeaderWaitTime
    /\ WaitTimeExact

\* flag value, else value of the environment variable, else fixed default
Fallback(flag, env, hard) ==
    IF flag # Absent THEN flag ELSE IF env # Unset THEN env ELSE hard

Stages == 1..6

StageStarted(i) ==
    CASE i = 1 -> pc \notin {"start", "run", "flag_error"}
      [] i = 2 -> calls["SyncStatus"] > 0
      [] i = 3 -> calls["NewRedisCache"] > 0
      [] i = 4 -> calls["Decode"] > 0
      [] i = 5 -> opts # <<>> \/ calls["NewRelayAPI"] > 0
      [] OTHER -> calls["StartServer"] > 0

StageDone(i) ==
    CASE i = 1 -> StageStarted(1) /\ genesisForkVersionHex # ""
      [] i = 2 -> StageStarted(2) /\ SyncStatus(beaconNode) = NoErr
      [] i = 3 -> redis # <<>> /\ calls["NewProdProposerDatastore"] = 1 /\ ds # <<>>
      [] i = 4 -> calls["SecretKeyFromBytes"] = 1 /\ sk # <<>>
      [] i = 5 -> calls["NewRelayAPI"] = 1 /\ srv # <<>>
      [] OTHER -> FALSE

StageFailed(i) ==
    CASE i = 1 -> StageStarted(1) /\ genesisForkVersionHex = ""
      [] i = 2 -> SyncFailed
      [] i = 3 -> RedisFailed
      [] i = 4 -> DecodeFailed \/ KeyRejected
      [] i = 5 -> calls["NewRelayAPI"] > 0 /\ srv = <<>>
      [] OTHER -> FALSE

\* C13: a stage has started only if every earlier stage is done; a failed
\* stage leaves the run at fatal-exit with no later stage started; a run is
\* at fatal-exit before serving only because a stage failed.
C13_StageOrder ==
    /\ \A i \in Stages : StageStarted(i) => \A j \in 1..(i - 1) : StageDone(j)
    /\ \A i \in Stages :
           StageFailed(i) =>
               /\ pc = "fatal"
               /\ ~StageDone(i)
               /\ \A j \in (i + 1)..6 : ~StageStarted(j)
    /\ (pc = "fatal" /\ ~StageStarted(6)) => \E i \in Stages : StageFailed(i)

C13_Witness ==
    /\ StageFailed(5)
    /\ \A j \in 1..4 : StageDone(j)
    /\ ~StageStarted(6)
    /\ pc = "fatal"

\* C14: the only step out of serving goes to fatal-exit, whether StartServer
\* returned an error or not; once the server was started the run is serving
\* or at fatal-exit, never anywhere else.
C14_ServeReturnIsFatal ==
    /\ [][pc = "serving" => (pc' = "fatal" /\ fatalMsg' \in {<<NoErr>>, <<"listen failed">>})]_vars
    /\ [](calls["StartServer"] > 0 => pc \in {"serving", "fatal"})

C14_Witness == calls["StartServer"] = 1 /\ pc = "fatal" /\ fatalMsg = <<NoErr>>

PcRank(p) ==
    CASE p = "start" -> 0
      [] p = "run" -> 1
      [] p = "beacon" -> 2
      [] p = "redis" -> 3
      [] p = "datastore" -> 4
      [] p = "decode" -> 5
      [] p = "key" -> 6
      [] p = "opts" -> 7
      [] p = "create" -> 8
      [] p = "start_server" -> 9
      [] p = "serving" -> 10
      [] OTHER -> 11

\* C15: every step moves the run strictly forward in the order of the
\* stages, so no stage is entered twice and none is gone back to; no
\* collaborator is called twice; a run that entered Run eventually is serving
\* or at fatal-exit.
C15_ForwardPath ==
    /\ [][PcRank(pc') > PcRank(pc)]_vars
    /\ [](\A c \in Collaborators : calls[c] <= 1)
    /\ (pc = "run") ~> (pc \in {"serving", "fatal"})

C15_Witness ==
    /\ pc = "serving"
    /\ \A c \in Collaborators : calls[c] = 1

\* the four named flags in their declared order, and their versions
NamedFlags ==
    <<useGenesisForkVersionMainnet, useGenesisForkVersionKiln,
      useGenesisForkVersionRopsten, useGenesisForkVersionSepolia>>
NamedVersions == <<"0x00000000", "0x70000069", "0x80000069", "0x90000069">>
FirstNamed == CHOOSE i \in 1..4 : NamedFlags[i] /\ \A j \in 1..(i - 1) : ~NamedFlags[j]

\* C16: with an empty custom override, the resolved identity is the version
\* of the first true flag in the order mainnet, kiln, ropsten, sepolia; with
\* all four false the run is at fatal-exit and nothing was resolved or called.
C16_NamedOrder ==
    (pc \notin {"start", "run", "flag_error"} /\ useCustomGenesisForkVersion = "") =>
        IF \E i \in 1..4 : NamedFlags[i]
        THEN /\ genesisForkVersionHex = NamedVersions[FirstNamed]
             /\ calls["SyncStatus"] = 0 => pc = "beacon"
        ELSE /\ pc = "fatal"
             /\ fatalMsg = <<MsgNoGenesis>>
             /\ genesisForkVersionHex = ""
             /\ \A c \in Collaborators : calls[c] = 0

C16_Witness ==
    /\ pc = "beacon"
    /\ useCustomGenesisForkVersion = ""
    /\ useGenesisForkVersionMainnet /\ useGenesisForkVersionKiln
    /\ useGenesisForkVersionSepolia
    /\ genesisForkVersionHex = "0x00000000"

\* C17: the options exist only once identity, beacon check, cache connection
\* and key loading are done; their fields are the values resolved before
\* (a non-empty identity, the configured listen address and pprof flag, the
\* client whose sync status was asked, the datastore around the opened
\* connection, the validated key); the constructor receives exactly them; the
\* options are never rebuilt and no resolved value changes once it is set.
C17_OptionsFrame ==
    /\ [](opts # <<>> =>
            /\ \A j \in 1..4 : StageDone(j)
            /\ opts.GenesisForkVersionHex = genesisForkVersionHex
            /\ opts.GenesisForkVersionHex # ""
            /\ opts.ListenAddr =
                   (IF osArgs.listenAddr # Absent THEN osArgs.listenAddr
                    ELSE "localhost:9062")
            /\ opts.PprofAPI = (osArgs.pprof = "true")
            /\ opts.BeaconClient = beaconClient
            /\ opts.BeaconClient = NewProdBeaconClient(callArgs["SyncStatus"][1])
            /\ opts.Datastore = NewProdProposerDatastore(redis)
            /\ redis = <<callArgs["NewRedisCache"][1]>>
            /\ opts.SecretKey = sk
            /\ opts.SecretKey = SecretKeyFromBytes(hexutilDecode(secretKey).bytes).sk)
    /\ [](calls["NewRelayAPI"] > 0 => callArgs["NewRelayAPI"] = <<opts>>)
    /\ [][/\ opts # <<>> => opts' = opts
          /\ genesisForkVersionHex # "" => genesisForkVersionHex' = genesisForkVersionHex
          /\ beaconClient # <<>> => beaconClient' = beaconClient
          /\ redis # <<>> => redis' = redis
          /\ ds # <<>> => ds' = ds
          /\ sk # <<>> => sk' = sk
          /\ Parsed => listenAddr' = listenAddr /\ apiPprof' = apiPprof]_vars

C17_Witness ==
    /\ pc = "start_server"
    /\ osArgs.listenAddr # Absent
    /\ osArgs.pprof = "true"
    /\ callArgs["NewRelayAPI"][1].ListenAddr = osArgs.listenAddr
    /\ callArgs["NewRelayAPI"][1].PprofAPI
    /\ callArgs["NewRelayAPI"][1].SecretKey # <<>>

\* C18: a non-empty custom override is taken as the identity without any
\* test of its form: resolution does not fail, the run goes on to ask the
\* beacon node and to connect to the cache, none of the calls made before
\* the constructor receives the identity, and the constructor does.
C18_NoFormatValidation ==
    /\ []((pc \notin {"start", "run", "flag_error"} /\ useCustomGenesisForkVersion # "") =>
            /\ genesisForkVersionHex = useCustomGenesisForkVersion
            /\ ~StageFailed(1)
            /\ pc = "fatal" => calls["SyncStatus"] = 1
            /\ genesisForkVersionHex \notin {beaconNodeURI, redisURI}
            /\ callArgs["SyncStatus"] \in {<<>>, <<beaconNodeURI>>}
            /\ callArgs["NewRedisCache"] \in {<<>>, <<redisURI>>}
            /\ callArgs["NewProdProposerDatastore"] \in {<<>>, <<redis>>}
            /\ callArgs["Decode"] \in {<<>>, <<secretKey>>}
            /\ callArgs["SecretKeyFromBytes"] \in {<<>>, <<envSkBytes>>}
            /\ calls["NewRelayAPI"] > 0 =>
                   callArgs["NewRelayAPI"][1].GenesisForkVersionHex = useCustomGenesisForkVersion)
    /\ (pc = "run" /\ useCustomGenesisForkVersion # "") ~> (calls["SyncStatus"] = 1)
    /\ (pc = "redis" /\ useCustomGenesisForkVersion # "") ~> (calls["NewRedisCache"] = 1)

C18_Witness ==
    /\ useCustomGenesisForkVersion = "zz"
    /\ calls["SyncStatus"] = 1
    /\ calls["NewRedisCache"] = 1
    /\ calls["NewRelayAPI"] = 1
    /\ callArgs["NewRelayAPI"][1].GenesisForkVersionHex = "zz"

====
